---- MODULE Spec2Model ----
(***************************************************************************)
(* GameTCPSniffer: the packet handler (src/servers.py) that feeds two      *)
(* bounded thread queues, and the decoder coroutine (src/decoder.py) that  *)
(* takes segments from one of them, checks the varint framing, unwraps the *)
(* protobuf Any envelope, resolves the schema module (compiling it on a    *)
(* miss) and publishes TCP_Message records to an asyncio queue.            *)
(*                                                                         *)
(* Bytes are naturals 0..255, byte strings and text strings are sequences  *)
(* of bytes (the text used here is ASCII, one byte per character).         *)
(***************************************************************************)
EXTENDS Integers, Sequences, FiniteSets, TLC

\* ------------------------------------------------------------------------
\* Bounds of the model
\* ------------------------------------------------------------------------

\* maxsize of db_queue_for_decoder and of db_queue_for_statemachine
QueueMax == 2

\* maxsize of queue_com
ComMax == 1

\* the counters of warnings, compiler runs, lost items and skipped
\* task_done calls stop counting here: CountMax stands for "that or more"
CountMax == 1

\* ------------------------------------------------------------------------
\* Python helpers
\* ------------------------------------------------------------------------

Min(a, b) == IF a < b THEN a ELSE b

Max(a, b) == IF a > b THEN a ELSE b

\* a counter that stops counting at CountMax
Bump(n) == Min(n + 1, CountMax)

RECURSIVE Pow2(_)
Pow2(n) == IF n = 0 THEN 1 ELSE 2 * Pow2(n - 1)

\* s[i:] of Python: a negative i counts from the end, and both ends clamp
SliceFrom(s, i) ==
    LET start == IF i < 0 THEN Max(Len(s) + i, 0) ELSE Min(i, Len(s))
    IN  SubSeq(s, start + 1, Len(s))

\* s[i:j] of Python for 0 <= i
Slice(s, i, j) == SubSeq(s, i + 1, Min(j, Len(s)))

\* the 0-based indices at which sub occurs in s
Occurrences(sub, s) ==
    { i \in 0..(Len(s) - Len(sub)) : SubSeq(s, i + 1, i + Len(sub)) = sub }

\* `sub in s` of Python, for bytes and for str
Contains(sub, s) == Occurrences(sub, s) # {}

\* s.index(sub) of Python, where sub occurs in s
IndexOf(sub, s) == CHOOSE i \in Occurrences(sub, s) : \A j \in Occurrences(sub, s) : i <= j

\* ------------------------------------------------------------------------
\* parse_varints_from_hex
\* ------------------------------------------------------------------------

\* shift += 7: the bits of one group
GroupBits == 7

\* An int of Python has no width. Here it is the sequence of its limbs of
\* four groups (28 bits) each, least significant first, without leading
\* zero limbs: 0 is <<>>, 2^35 is <<0, 128>>.
LimbBits == 4 * GroupBits

\* the int of at most one limb, as a number
IntOf(w) == IF w = <<>> THEN 0 ELSE w[1]

\* w without its leading zero limbs
RECURSIVE WStrip(_)
WStrip(w) ==
    IF w # <<>> /\ w[Len(w)] = 0 THEN WStrip(SubSeq(w, 1, Len(w) - 1)) ELSE w

\* w with zero limbs up to limb k
WPad(w, k) == IF Len(w) < k THEN w \o [i \in 1..(k - Len(w)) |-> 0] ELSE w

\* WOr that forgets the shift
WOr_Unshifted(result, bits, shift) == [WPad(result, 1) EXCEPT ![1] = @ + bits]

\* result | (bits << shift), for bits of one group and shift a multiple of
\* GroupBits beyond the bits of result (the groups do not overlap, so | is +)
WOr(result, bits, shift) ==
    [WPad(result, shift \div LimbBits + 1)
        EXCEPT ![shift \div LimbBits + 1] = @ + bits * Pow2(shift % LimbBits)]

\* the while loop: one byte per turn, low 7 bits placed at the current shift
RECURSIVE VarintLoop(_, _, _, _)
VarintLoop(bytes_msg, position, result, shift) ==
    IF position < Len(bytes_msg)
    THEN LET byte == bytes_msg[position + 1]
             r    == WOr(result, byte % 128, shift)
         IN  IF byte \div 128 = 0
             THEN [result |-> r, position |-> position + 1]
             ELSE VarintLoop(bytes_msg, position + 1, r, shift + GroupBits)
    ELSE [result |-> result, position |-> position]

parse_varints_from_hex(bytes_msg) ==
    LET end == VarintLoop(bytes_msg, 0, <<>>, 0)
    IN  [value          |-> WStrip(end.result),
         bytes_consumed |-> end.position,
         varint_bytes   |-> Slice(bytes_msg, 0, end.position)]

\* ------------------------------------------------------------------------
\* The protobuf wire format, as Message.ParseFromString reads it
\* ------------------------------------------------------------------------

\* A varint as the wire parser uses it: field numbers, wire types and
\* lengths are numbers; a value of more than one limb stands for a number
\* beyond every buffer of the model.
WireVarint(b) ==
    [value          |-> IF Len(parse_varints_from_hex(b).value) <= 1
                        THEN IntOf(parse_varints_from_hex(b).value)
                        ELSE Pow2(LimbBits),
     bytes_consumed |-> parse_varints_from_hex(b).bytes_consumed]

\* One field of a message: the tag varint (field number * 8 + wire type)
\* ends at position body, and v is the varint read at body. Wire type 0 is a
\* varint, 1 eight bytes, 2 a length varint and that many bytes, 5 four
\* bytes. Field number 0, another wire type, or a field cut short is a
\* DecodeError. Yields the field number, the bytes of a length-delimited
\* body, and the position after the field.
FieldAt(b, body, tag, v, wt, after, next) ==
    [ok    |-> /\ b[body] \div 128 = 0
               /\ wt \in {0, 2} => (v.bytes_consumed # 0 /\ b[after] \div 128 = 0)
               /\ tag.value \div 8 # 0
               /\ next <= Len(b),
     fnum  |-> tag.value \div 8,
     bytes |-> IF wt = 2 THEN Slice(b, after, next) ELSE <<>>,
     wt    |-> wt,
     next  |-> next]

FieldBody(b, body, tag, v, wt) ==
    FieldAt(b, body, tag, v, wt, body + v.bytes_consumed,
            CASE wt = 0 -> body + v.bytes_consumed
              [] wt = 1 -> body + 8
              [] wt = 2 -> body + v.bytes_consumed + v.value
              [] wt = 5 -> body + 4
              [] OTHER  -> Len(b) + 1)

FieldTag(b, body, tag) ==
    FieldBody(b, body, tag, WireVarint(SliceFrom(b, body)), tag.value % 8)

WireField(b, pos, tag) == FieldTag(b, pos + tag.bytes_consumed, tag)

\* what is kept of a field f in the result acc
Keep(acc, f) ==
    IF ~f.ok THEN [acc EXCEPT !.ok = FALSE]
    ELSE IF f.wt = 2 /\ f.fnum = 1 THEN [acc EXCEPT !.f1 = f.bytes]
    ELSE IF f.wt = 2 /\ f.fnum = 2 THEN [acc EXCEPT !.f2 = f.bytes]
    ELSE acc

\* Reads the fields of one message from position pos on; the result keeps
\* the last length-delimited body of fields 1 and 2.
RECURSIVE WireFields(_, _, _)

WireFieldsFrom(b, acc, f) == WireFields(b, IF f.ok THEN f.next ELSE Len(b), Keep(acc, f))

WireFields(b, pos, acc) ==
    IF pos >= Len(b) \/ ~acc.ok THEN acc
    ELSE WireFieldsFrom(b, acc, WireField(b, pos, WireVarint(SliceFrom(b, pos))))

\* Any().ParseFromString(b): type_url is field 1, value is field 2
ParseAny(b) ==
    LET r == WireFields(b, 0, [ok |-> TRUE, f1 |-> <<>>, f2 |-> <<>>])
    IN  [ok |-> r.ok, type_url |-> r.f1, value |-> r.f2]

\* proto_class().ParseFromString(b): succeeds on well-formed wire data
ParseMessage(b) == WireFields(b, 0, [ok |-> TRUE, f1 |-> <<>>, f2 |-> <<>>]).ok

\* ------------------------------------------------------------------------
\* Configuration and inputs
\* ------------------------------------------------------------------------

\* type names, as text
Foo == <<70, 111, 111>>

\* a type whose name holds the name Foo
Fooo == <<70, 111, 111, 111>>

EmptyStr == <<>>

\* magic_bytes: the marker that starts every type_url
magic_bytes == <<3, 7>>

\* the type_url of a type name: marker, "/", name
TypeUrl(name) == magic_bytes \o <<47>> \o name

\* the serialized Any of a type_url and a value: field 1 and field 2, both
\* length-delimited (tags 10 and 18)
AnyBytes(type_url, value) ==
    <<10, Len(type_url)>> \o type_url \o <<18, Len(value)>> \o value

\* a well-formed message body (field 1, varint 1) and one cut short
GoodValue == <<8, 1>>

BadValue == <<8>>

\* a framed payload: the varint of the length of the rest, then the rest
Framed(rest) == <<Len(rest)>> \o rest

\* a Foo message
FooSegment == Framed(AnyBytes(TypeUrl(Foo), GoodValue))

\* a Foo message whose varint declares one byte too many
TooLong ==
    <<Len(AnyBytes(TypeUrl(Foo), GoodValue)) + 1>> \o AnyBytes(TypeUrl(Foo), GoodValue)

\* four bytes without the marker
NoMarker == <<3, 10, 1, 70>>

\* an envelope cut short
EnvelopeCut == <<5, 10, 9>> \o magic_bytes \o <<47>>

\* a Foo message whose value is cut short
ValueCut == Framed(AnyBytes(TypeUrl(Foo), BadValue))

\* a Fooo message
FoooSegment == Framed(AnyBytes(TypeUrl(Fooo), GoodValue))

\* the marker at index 1
MarkerAtOne == <<2>> \o magic_bytes

ServerIP == "10.0.0.1"

ClientIP == "192.168.0.2"

OtherIP == "10.0.0.9"

\* servers: the list the handler is called with
servers == {ServerIP}

\* is_client of src/utils.py: the addresses of this machine
is_client(ip) == ip = ClientIP

\* a packet from the server to the client
FromServer(payload) ==
    [tcp |-> TRUE, src |-> ServerIP, dst |-> ClientIP, sport |-> 7000, dport |-> 50000,
     payload |-> payload]

\* a packet from the client to the server
FromClient(payload) ==
    [tcp |-> TRUE, src |-> ClientIP, dst |-> ServerIP, sport |-> 50000, dport |-> 7000,
     payload |-> payload]

\* a TCP packet of another connection, and a packet that is not TCP over IP
Strangers ==
    { [tcp |-> TRUE,  src |-> OtherIP,  dst |-> ClientIP, sport |-> 443,
       dport |-> 50001, payload |-> <<>>],
      [tcp |-> FALSE, src |-> ServerIP, dst |-> ClientIP, sport |-> 0,
       dport |-> 0, payload |-> <<>>] }

\* the captures the program is run on: the packets the handler is called
\* with during one run. Foo messages among segments that fail the framing
\* check or hold no marker; among segments whose envelope or value is cut
\* short; among Fooo messages and segments with the marker at index 1; and
\* four-byte packets of both directions among packets of no game server.
Captures ==
    { { FromServer(p) : p \in {FooSegment, TooLong, NoMarker} },
      { FromServer(p) : p \in {FooSegment, EnvelopeCut, ValueCut} },
      { FromServer(p) : p \in {FooSegment, FoooSegment, MarkerAtOne} },
      {FromServer(NoMarker), FromClient(NoMarker)} \cup Strangers }

\* every packet of every capture
Packets == UNION Captures

\* the values filter_payload_len is run with: no filtering, zero, and the
\* length of the four-byte payloads
FilterLens == {-1, 0, 4}

\* protos_filter: the allowlists the decoder is run with
AllowLists == { <<EmptyStr>>, <<Foo>>, <<EmptyStr, Foo>> }

\* blacklist: the blocklists the decoder is run with
BlackLists == { <<>>, <<Foo>> }

\* (verbose, blacklist): the decoder is run verbose with the blocklist that
\* names Foo, and silent with no blocklist
Runs == { <<TRUE, <<Foo>> >>, <<FALSE, <<>> >> }

\* ------------------------------------------------------------------------
\* State
\* ------------------------------------------------------------------------

VARIABLES
    protos_filter,      \* decoder(): the allowlist
    blacklist,          \* decoder(): the blocklist
    verbose,            \* decoder(): the verbose flag
    filter_payload_len, \* packet_handler(): the ACK payload length, -1 for none
    capture,            \* the packets packet_handler is called with in this run
    queue_msg,          \* db_queue_for_decoder, the decoder's queue_msg (queue.Queue)
    queue_sm,           \* db_queue_for_statemachine (queue.Queue)
    queue_com,          \* the decoder's queue_com (asyncio.Queue)
    ph,                 \* the last call of packet_handler and how it ended
    warnings,           \* "Database queue full !" lines printed so far
    pc,                 \* where the decoder coroutine is
    thread,             \* the worker thread of asyncio.to_thread(queue_msg.get)
    got,                \* the item that thread took from queue_msg
    it,                 \* the locals of the current turn of the decoder loop
    log,                \* what the decoder loop did last
    modules,            \* sys.modules: the schema modules already imported
    artifacts,          \* the <name>_pb2 files that import_module can find
    compiles,           \* runs of protoc so far, per name
    lost,               \* items a thread took after the coroutine was cancelled
    undone,             \* turns that ended without queue_msg.task_done()
    varint_in,          \* parse_varints_from_hex called on its own: bytes_msg
    varint_out          \* and what the call returned

vars == <<protos_filter, blacklist, verbose, filter_payload_len, capture, queue_msg,
          queue_sm, queue_com, ph, warnings, pc, thread, got, it, log, modules, artifacts,
          compiles, lost, undone, varint_in, varint_out>>

varint == <<varint_in, varint_out>>

config == <<protos_filter, blacklist, verbose, filter_payload_len, capture>>

producer == <<queue_sm, ph, warnings>>

resolver == <<modules, artifacts, compiles>>

\* no message, no locals
None == [none |-> TRUE]

\* the names a schema module is asked for: the entries of the allowlists
Names == UNION { { a[i] : i \in 1..Len(a) } : a \in AllowLists }

NoLog == [kind |-> "start", err |-> "", line |-> FALSE]

Init ==
    /\ protos_filter \in AllowLists
    /\ \E run \in Runs : verbose = run[1] /\ blacklist = run[2]
    /\ filter_payload_len \in FilterLens
    /\ capture \in Captures
    /\ queue_msg = <<>>
    /\ queue_sm = <<>>
    /\ queue_com = <<>>
    /\ ph = "none"
    /\ warnings = 0
    /\ pc = "wait"
    /\ thread = "getting"
    /\ got = None
    /\ it = None
    /\ log = NoLog
    /\ modules = {}
    /\ artifacts = {}
    /\ compiles = [n \in Names |-> 0]
    /\ lost = 0
    /\ undone = 0
    /\ varint_in = <<>>
    /\ varint_out = None

\* ------------------------------------------------------------------------
\* packet_handler (src/servers.py)
\* ------------------------------------------------------------------------

\* Message(src_ip, dst_ip, pkt, flag)
Message(src_ip, dst_ip, pkt, flag) ==
    [src_ip |-> src_ip, dst_ip |-> dst_ip, pkt |-> pkt, flag |-> flag]

\* what put_nowait of a full queue.Queue raises
PutNowaitRaises == "queue.Full"

\* what the handler's except clauses catch
HandlerCatches == "asyncio.QueueFull"

\* FlagOf without the test of is_client
FlagOf_IgnoresClient(pkt) ==
    IF filter_payload_len > 0 /\ Len(pkt.payload) = filter_payload_len
    THEN "ACK" ELSE "OTHER"

\* the flag of a message for the state machine
FlagOf(pkt) ==
    IF filter_payload_len > 0 /\ Len(pkt.payload) = filter_payload_len
       /\ ~is_client(pkt.src)
    THEN "ACK" ELSE "OTHER"

\* try: q.put_nowait(msg) / except asyncio.QueueFull: print(...)
\* q is the queue before, q2 the queue after
PutOrWarn(q, q2, msg) ==
    IF Len(q) < QueueMax
    THEN /\ q2 = Append(q, msg)
         /\ warnings' = warnings
         /\ ph' = "returned"
    ELSE /\ q2 = q
         /\ IF PutNowaitRaises = HandlerCatches
            THEN /\ warnings' = Bump(warnings)
                 /\ ph' = "returned"
            ELSE /\ warnings' = warnings
                 /\ ph' = PutNowaitRaises

packet_handler(pkt) ==
    /\ IF pkt.tcp /\ (pkt.src \in servers \/ pkt.dst \in servers)
       THEN IF filter_payload_len = -1
            THEN /\ PutOrWarn(queue_msg, queue_msg',
                              Message(pkt.src, pkt.dst, pkt, "OTHER"))
                 /\ queue_sm' = queue_sm
            ELSE /\ PutOrWarn(queue_sm, queue_sm',
                              Message(pkt.src, pkt.dst, pkt, FlagOf(pkt)))
                 /\ queue_msg' = queue_msg
       ELSE /\ ph' = "returned"
            /\ UNCHANGED <<queue_msg, queue_sm, warnings>>
    /\ UNCHANGED <<config, varint, queue_com, pc, thread, got, it, log, resolver, lost,
                   undone>>

\* the state machine, the consumer of db_queue_for_statemachine, takes an item
StateMachineGet ==
    /\ queue_sm # <<>>
    /\ queue_sm' = Tail(queue_sm)
    /\ UNCHANGED <<config, varint, queue_msg, queue_com, ph, warnings, pc, thread, got, it,
                   log, resolver, lost, undone>>

\* the consumer of queue_com takes a record; it runs on the event loop, so
\* only while the decoder is suspended in an await or has stopped
ComGet ==
    /\ pc \in {"wait", "put", "cancelled"}
    /\ queue_com # <<>>
    /\ queue_com' = Tail(queue_com)
    /\ UNCHANGED <<config, varint, queue_msg, queue_sm, ph, warnings, pc, thread, got, it,
                   log, resolver, lost, undone>>

\* ------------------------------------------------------------------------
\* decoder (src/decoder.py): the turn of the loop up to the allowlist test
\* ------------------------------------------------------------------------

\* magic_number_index: -1, or the first index of magic_bytes in the payload
MagicNumberIndex(payload) ==
    IF Contains(magic_bytes, payload) THEN IndexOf(magic_bytes, payload) ELSE -1

\* the start of payload[magic_number_index-2:], as written
EnvelopeStart(payload) == MagicNumberIndex(payload) - 2

\* any_msg.ParseFromString(payload[magic_number_index-2:])
Envelope(payload) == ParseAny(SliceFrom(payload, EnvelopeStart(payload)))

\* verbose and not any(b in type_url for b in blacklist) and type_url != ""
VerboseLine(verb, black, type_url) ==
    /\ verb
    /\ ~ \E i \in 1..Len(black) : Contains(black[i], type_url)
    /\ type_url # EmptyStr

\* Matching with the operands of `in` swapped
Matching_Reversed(allow, type_url) ==
    { i \in 1..Len(allow) : Contains(type_url, allow[i]) }

\* the indices of the allowlist entries that occur in type_url
Matching(allow, type_url) == { i \in 1..Len(allow) : Contains(allow[i], type_url) }

\* Forwarded without the test protos_filter != [""]
Forwarded_EmptyMatchesAll(allow, type_url) == Matching(allow, type_url) # {}

\* protos_filter != [""] and any(... in any_msg.type_url for p in protos_filter)
Forwarded(allow, type_url) ==
    /\ allow # <<EmptyStr>>
    /\ Matching(allow, type_url) # {}

\* proto_filter after any(): the first entry that occurs in type_url
ProtoFilter(allow, type_url) ==
    allow[CHOOSE i \in Matching(allow, type_url) :
            \A j \in Matching(allow, type_url) : i <= j]

\* the locals of a turn that got the message msg
Locals(msg, v, start, type_url, value, proto_filter) ==
    [msg            |-> msg,
     value_varint   |-> v.value,
     bytes_consumed |-> v.bytes_consumed,
     start          |-> start,
     type_url       |-> type_url,
     value          |-> value,
     proto_filter   |-> proto_filter]

\* FramingError that forgets the bytes of the varint itself
FramingError_IgnoresVarintBytes(v, payload) ==
    Len(v.value) > 1 \/ IntOf(v.value) > Len(payload)

\* value_varint + bytes_consumed > len(payload); a value of more than one
\* limb is 2^28 at least, more than the length of any payload
FramingError(v, payload) ==
    Len(v.value) > 1 \/ IntOf(v.value) + v.bytes_consumed > Len(payload)

\* Lines 107-120, with v the parsed varint and any the parsed envelope: how
\* far the turn gets, whether ParseFromString was called on the envelope
\* bytes, whether the verbose line is printed, and the turn's locals.
TurnOf(msg, v, start, any, allow, black, verb) ==
    IF FramingError(v, msg.pkt.payload)
    THEN [kind |-> "error", err |-> "ValueError: packet size", line |-> FALSE,
          parsed |-> FALSE,
          locals |-> Locals(msg, v, start, EmptyStr, <<>>, EmptyStr)]
    ELSE IF ~any.ok
    THEN [kind |-> "error", err |-> "DecodeError: Any", line |-> FALSE,
          parsed |-> TRUE,
          locals |-> Locals(msg, v, start, EmptyStr, <<>>, EmptyStr)]
    ELSE [kind   |-> IF Forwarded(allow, any.type_url) THEN "matched" ELSE "filtered",
          err    |-> "",
          line   |-> VerboseLine(verb, black, any.type_url),
          parsed |-> TRUE,
          locals |-> Locals(msg, v, start, any.type_url, any.value,
                            IF Forwarded(allow, any.type_url)
                            THEN ProtoFilter(allow, any.type_url) ELSE EmptyStr)]

\* Turn with the blocklist applied to forwarding too: a type the blocklist
\* names is not forwarded
Turn_BlocklistFilters(msg, allow, black, verb) ==
    TurnOf(msg, parse_varints_from_hex(msg.pkt.payload),
           EnvelopeStart(msg.pkt.payload), Envelope(msg.pkt.payload),
           IF \E i \in 1..Len(black) :
                Contains(black[i], Envelope(msg.pkt.payload).type_url)
           THEN <<EmptyStr>> ELSE allow,
           black, verb)

\* Lines 104-120 for the message msg.
Turn(msg, allow, black, verb) ==
    TurnOf(msg, parse_varints_from_hex(msg.pkt.payload),
           EnvelopeStart(msg.pkt.payload), Envelope(msg.pkt.payload),
           allow, black, verb)

\* back to line 103: a new thread runs queue_msg.get(timeout=1)
BackToWait ==
    /\ pc' = "wait"
    /\ thread' = "getting"
    /\ got' = None
    /\ it' = None

\* DecoderError with the exception leaving the loop
DecoderError_Escapes(err) ==
    /\ log' = [kind |-> "error", err |-> err, line |-> FALSE]
    /\ undone' = Bump(undone)
    /\ pc' = "raised"
    /\ thread' = "idle"
    /\ got' = None
    /\ it' = None

\* except Exception as e: print(f"Decoder error: {e}"); the exception has
\* skipped the queue_msg.task_done() of line 148
DecoderError(err) ==
    /\ log' = [kind |-> "error", err |-> err, line |-> FALSE]
    /\ undone' = Bump(undone)
    /\ BackToWait

\* ThreadGet that takes the newest item
ThreadGet_TakesLast ==
    /\ thread = "getting"
    /\ queue_msg # <<>>
    /\ queue_msg' = SubSeq(queue_msg, 1, Len(queue_msg) - 1)
    /\ IF pc = "cancelled"
       THEN /\ thread' = "idle"
            /\ got' = None
            /\ lost' = Bump(lost)
       ELSE /\ thread' = "has"
            /\ got' = queue_msg[Len(queue_msg)]
            /\ lost' = lost
    /\ UNCHANGED <<config, varint, queue_com, producer, pc, it, log, resolver, undone>>

\* The thread's get returns an item: it is taken out of queue_msg. With the
\* coroutine cancelled nobody awaits the result any more.
ThreadGet ==
    /\ thread = "getting"
    /\ queue_msg # <<>>
    /\ queue_msg' = Tail(queue_msg)
    /\ IF pc = "cancelled"
       THEN /\ thread' = "idle"
            /\ got' = None
            /\ lost' = Bump(lost)
       ELSE /\ thread' = "has"
            /\ got' = Head(queue_msg)
            /\ lost' = lost
    /\ UNCHANGED <<config, varint, queue_com, producer, pc, it, log, resolver, undone>>

\* ThreadTimeout with queue.Empty falling through to except Exception
ThreadTimeout_LogsError ==
    /\ thread = "getting"
    /\ queue_msg = <<>>
    /\ IF pc = "cancelled"
       THEN /\ thread' = "idle"
            /\ log' = log
       ELSE /\ thread' = "getting"
            /\ log' = [kind |-> "error", err |-> "Empty", line |-> FALSE]
    /\ UNCHANGED <<config, varint, queue_msg, queue_com, producer, pc, got, it, resolver,
                   lost, undone>>

\* The thread's get times out on the empty queue (queue.Empty): the loop
\* continues with a new get; after a cancel the thread just ends.
ThreadTimeout ==
    /\ thread = "getting"
    /\ queue_msg = <<>>
    /\ IF pc = "cancelled"
       THEN /\ thread' = "idle"
            /\ log' = log
       ELSE /\ thread' = "getting"
            /\ log' = [kind |-> "timeout", err |-> "", line |-> FALSE]
    /\ UNCHANGED <<config, varint, queue_msg, queue_com, producer, pc, got, it, resolver,
                   lost, undone>>

\* The coroutine resumes with the message and runs lines 104-120; t is the
\* turn for the message.
DecParseAs(t) ==
    /\ pc = "wait"
    /\ thread = "has"
    /\ \/ /\ t.kind = "error"
          /\ DecoderError(t.err)
       \/ /\ t.kind = "filtered"
          /\ log' = [kind |-> "filtered", err |-> "", line |-> t.line]
          /\ undone' = undone
          /\ BackToWait
       \/ /\ t.kind = "matched"
          /\ log' = [kind |-> "matched", err |-> "", line |-> t.line]
          /\ pc' = "import"
          /\ thread' = "idle"
          /\ got' = None
          /\ it' = t.locals
          /\ undone' = undone
    /\ UNCHANGED <<config, varint, queue_msg, queue_com, producer, resolver, lost>>

DecParse == DecParseAs(Turn(got, protos_filter, blacklist, verbose))

\* ------------------------------------------------------------------------
\* import_proto and compile_proto
\* ------------------------------------------------------------------------

\* \w of re, for ASCII
IsWordChar(c) ==
    \/ c \in 48..57
    \/ c \in 65..90
    \/ c = 95
    \/ c \in 97..122

\* re.search(r"No module named '(\w{3})_pb2'", e.msg) on the message of the
\* ImportError for <name>_pb2: the name has to be three word characters
RegexMatches(name) ==
    /\ Len(name) = 3
    /\ \A i \in 1..Len(name) : IsWordChar(name[i])

\* import_module(f"{proto_name}_pb2") returns: from sys.modules, or by
\* loading the file, which records the module in sys.modules
CanImport(name) == name \in modules \/ name \in artifacts

\* One turn of the while loop of import_proto up to compile_proto.
ImportTry ==
    /\ pc = "import"
    /\ LET name == it.proto_filter
       IN  \/ /\ CanImport(name)
              /\ modules' = modules \cup {name}
              /\ pc' = "decode"
              /\ UNCHANGED <<thread, got, it, log, undone>>
           \/ \* the file is there and loading it raises something else
              /\ name \in artifacts \ modules
              /\ modules' = modules
              /\ DecoderError("Exception: import")
           \/ /\ ~CanImport(name)
              /\ RegexMatches(name)
              /\ modules' = modules
              /\ pc' = "compile"
              /\ UNCHANGED <<thread, got, it, log, undone>>
           \/ /\ ~CanImport(name)
              /\ ~RegexMatches(name)
              /\ modules' = modules
              /\ DecoderError("ValueError: cant parse error message")
    /\ UNCHANGED <<config, varint, queue_msg, queue_com, producer, artifacts, compiles, lost>>

\* compile_proto(proto_path, proto_file) and the continue after it: protoc
\* exits with a status, and on status 0 it has or has not left a file that
\* import_module finds.
Compile ==
    /\ pc = "compile"
    /\ LET name == it.proto_filter
       IN  /\ compiles' = [compiles EXCEPT ![name] = Bump(@)]
           /\ \/ /\ artifacts' = artifacts
                 /\ DecoderError("RuntimeError: Protoc failed")
              \/ /\ artifacts' = artifacts \cup {name}
                 /\ pc' = "import"
                 /\ UNCHANGED <<thread, got, it, log, undone>>
              \/ /\ artifacts' = artifacts
                 /\ pc' = "import"
                 /\ UNCHANGED <<thread, got, it, log, undone>>
    /\ UNCHANGED <<config, varint, queue_msg, queue_com, producer, modules, lost>>

\* ------------------------------------------------------------------------
\* decoder: decoding the value and publishing
\* ------------------------------------------------------------------------

\* TCP_Message with the size of the framed rest only
TCP_Message_SizeWithoutVarint(locals) ==
    [client_ip |-> <<locals.msg.dst_ip, locals.msg.pkt.sport>>,
     server_ip |-> <<locals.msg.src_ip, locals.msg.pkt.dport>>,
     proto     |-> locals.proto_filter,
     size      |-> IntOf(locals.value_varint),
     nb_packet |-> 1,
     data      |-> locals.value]

\* TCP_Message(...): the endpoints are (ip, port) pairs, data is the JSON of
\* the decoded fields, which the value bytes determine. The turn passed the
\* framing check, so value_varint is a number of one limb.
TCP_Message(locals) ==
    [client_ip |-> <<locals.msg.dst_ip, locals.msg.pkt.sport>>,
     server_ip |-> <<locals.msg.src_ip, locals.msg.pkt.dport>>,
     proto     |-> locals.proto_filter,
     size      |-> IntOf(locals.value_varint) + locals.bytes_consumed,
     nb_packet |-> 1,
     data      |-> locals.value]

\* queue_com.put(tcp_msg) goes through, then queue_msg.task_done()
Publish ==
    /\ queue_com' = Append(queue_com, TCP_Message(it))
    /\ log' = [kind |-> "published", err |-> "", line |-> FALSE]
    /\ undone' = undone
    /\ BackToWait

\* Lines 130-146: proto_msg.ParseFromString(any_msg.value), then the put,
\* which waits while queue_com is full.
DecDecode ==
    /\ pc = "decode"
    /\ \/ /\ ~ParseMessage(it.value)
          /\ queue_com' = queue_com
          /\ DecoderError("DecodeError: message")
       \/ /\ ParseMessage(it.value)
          /\ Len(queue_com) < ComMax
          /\ Publish
       \/ /\ ParseMessage(it.value)
          /\ Len(queue_com) >= ComMax
          /\ pc' = "put"
          /\ UNCHANGED <<queue_com, thread, got, it, log, undone>>
    /\ UNCHANGED <<config, varint, queue_msg, producer, resolver, lost>>

\* the waiting put is woken once queue_com has room
DecPut ==
    /\ pc = "put"
    /\ Len(queue_com) < ComMax
    /\ Publish
    /\ UNCHANGED <<config, varint, queue_msg, producer, resolver, lost>>

\* queue_msg.unfinished_tasks while the loop runs: put adds one, task_done
\* takes one off, so it is the items in the queue, the item of the turn
\* under way, and the items of the turns that skipped task_done
unfinished_tasks ==
    Len(queue_msg)
    + (IF thread = "has" \/ pc \in {"import", "compile", "decode", "put"} THEN 1 ELSE 0)
    + undone

\* The stop signal: the decoder task is cancelled while it is suspended in
\* an await (the get of line 103 or the put of line 146). CancelledError is
\* no Exception, so it ends the loop. The thread of a pending get runs on.
Cancel ==
    /\ pc \in {"wait", "put"}
    /\ pc' = "cancelled"
    /\ thread' = IF thread = "has" THEN "idle" ELSE thread
    /\ got' = None
    /\ it' = None
    /\ log' = [kind |-> "cancelled", err |-> "", line |-> FALSE]
    /\ UNCHANGED <<config, varint, queue_msg, queue_com, producer, resolver, lost, undone>>

\* ------------------------------------------------------------------------
\* Specifications
\* ------------------------------------------------------------------------

Next ==
    \/ \E pkt \in capture : packet_handler(pkt)
    \/ StateMachineGet
    \/ ComGet
    \/ ThreadGet
    \/ ThreadTimeout
    \/ DecParse
    \/ ImportTry
    \/ Compile
    \/ DecDecode
    \/ DecPut
    \/ Cancel

Spec == Init /\ [][Next]_vars

\* import_proto and compile_proto are ordinary synchronous code: once
\* called they keep running
FairSpec == Init /\ [][Next]_vars /\ WF_vars(ImportTry) /\ WF_vars(Compile)

\* ------------------------------------------------------------------------
\* parse_varints_from_hex called on its own
\* ------------------------------------------------------------------------

\* varints as they start a payload: one, two, three and six bytes
Varints ==
    { <<0>>, <<1>>, <<127>>, <<128, 1>>, <<128, 128, 1>>,
      <<128, 128, 128, 128, 128, 1>> }

\* the bytes that follow a varint in a payload: up to two of these bytes
Suffixes ==
    {<<>>} \cup { <<a>> : a \in {0, 1, 128, 255} }
           \cup { <<a, b>> : a \in {0, 1, 128, 255}, b \in {0, 1, 128, 255} }

\* byte strings with eleven continuation bytes and more: ended by a byte
\* without the bit, or by the end of the buffer
Overlong ==
    { [i \in 1..11 |-> 128] \o <<1>>,
      [i \in 1..11 |-> 255] \o <<0>>,
      [i \in 1..11 |-> 128],
      [i \in 1..12 |-> 129] \o <<127, 5>> }

\* the arguments parse_varints_from_hex is called with
VarintInputs ==
    { v \o rest : v \in Varints, rest \in Suffixes } \cup Overlong

VarintInit ==
    /\ protos_filter = <<EmptyStr>>
    /\ blacklist = <<>>
    /\ verbose = FALSE
    /\ filter_payload_len = -1
    /\ capture = {}
    /\ queue_msg = <<>>
    /\ queue_sm = <<>>
    /\ queue_com = <<>>
    /\ ph = "none"
    /\ warnings = 0
    /\ pc = "wait"
    /\ thread = "getting"
    /\ got = None
    /\ it = None
    /\ log = NoLog
    /\ modules = {}
    /\ artifacts = {}
    /\ compiles = [n \in Names |-> 0]
    /\ lost = 0
    /\ undone = 0
    /\ varint_in \in VarintInputs
    /\ varint_out = None

\* the call returns its tuple
VarintCall ==
    /\ varint_out = None
    /\ varint_out' = parse_varints_from_hex(varint_in)
    /\ UNCHANGED <<config, queue_msg, queue_com, producer, pc, thread, got, it, log,
                   resolver, lost, undone, varint_in>>

VarintSpec == VarintInit /\ [][VarintCall]_vars

\* ------------------------------------------------------------------------
\* Properties
\* ------------------------------------------------------------------------

\* the packet is one the handler queues: TCP, to or from a game server
Targeted(pkt) == pkt.tcp /\ (pkt.src \in servers \/ pkt.dst \in servers)

\* the queue the handler puts into
TargetQueue == IF filter_payload_len = -1 THEN queue_msg ELSE queue_sm

\* C1: a call of packet_handler for a game-server packet while the target
\* queue holds its capacity returns normally, leaves both queues as they
\* were (the item is dropped) and prints exactly one "queue full" warning,
\* for the decoder queue and for the state-machine queue alike.
C1_FullQueueDropsAndWarns ==
    [][\A pkt \in Packets :
         (packet_handler(pkt) /\ Targeted(pkt) /\ Len(TargetQueue) = QueueMax)
         => /\ ph' = "returned"
            /\ queue_msg' = queue_msg
            /\ queue_sm' = queue_sm
            /\ warnings' = Bump(warnings)
            /\ (warnings < CountMax => warnings' = warnings + 1)]_vars

\* the length a payload declares: the varint's value plus the bytes the
\* varint occupies (2^28 stands for every length of more than one limb)
DeclaredLength(payload) ==
    IF Len(parse_varints_from_hex(payload).value) > 1
    THEN Pow2(LimbBits)
    ELSE IntOf(parse_varints_from_hex(payload).value)
         + parse_varints_from_hex(payload).bytes_consumed

\* C2: when the decoder resumes with a segment whose declared length
\* exceeds the payload length, the turn ends in the framing error, nothing
\* is published, and the loop is back at the get for the next segment.
C2_FramingErrorRejects ==
    [][(DecParse /\ DeclaredLength(got.pkt.payload) > Len(got.pkt.payload))
       => /\ log'.kind = "error"
          /\ log'.err = "ValueError: packet size"
          /\ queue_com' = queue_com
          /\ pc' = "wait"
          /\ thread' = "getting"
          /\ it' = None]_vars

\* C2: a turn has ended in the framing error and the loop waits again
C2_Witness ==
    /\ log.kind = "error"
    /\ log.err = "ValueError: packet size"
    /\ pc = "wait"
    /\ thread = "getting"

\* some allowlist entry is a substring of the type identifier
EntryOccurs(type_url) ==
    \E i \in 1..Len(protos_filter) : Contains(protos_filter[i], type_url)

\* every stage of the turn with locals l succeeded
AllStagesPassed(l) ==
    /\ DeclaredLength(l.msg.pkt.payload) <= Len(l.msg.pkt.payload)
    /\ Envelope(l.msg.pkt.payload).ok
    /\ l.type_url = Envelope(l.msg.pkt.payload).type_url
    /\ EntryOccurs(l.type_url)
    /\ l.proto_filter \in modules
    /\ ParseMessage(l.value)

\* C3: a record enters queue_com only as the one record of a turn whose
\* framing check, envelope unwrap, type resolution and payload decode all
\* succeeded and whose type identifier contains an allowlist entry, and that
\* ends the turn; a turn that reaches the payload decode and succeeds does
\* publish (at once, or after waiting for room); a turn whose envelope
\* parses but whose type identifier contains no allowlist entry publishes
\* nothing and goes back to waiting.
C3_PublishesExactlyOnSuccess ==
    [][/\ (Len(queue_com') > Len(queue_com))
          => /\ pc \in {"decode", "put"}
             /\ AllStagesPassed(it)
             /\ queue_com' = Append(queue_com, TCP_Message(it))
             /\ pc' = "wait"
             /\ it' = None
       /\ (DecDecode /\ ParseMessage(it.value))
          => \/ queue_com' = Append(queue_com, TCP_Message(it))
             \/ (pc' = "put" /\ it' = it)
       /\ (pc = "put" /\ pc' # "put")
          => \/ queue_com' = Append(queue_com, TCP_Message(it))
             \/ pc' = "cancelled"
       /\ (DecParse
           /\ DeclaredLength(got.pkt.payload) <= Len(got.pkt.payload)
           /\ Envelope(got.pkt.payload).ok
           /\ ~EntryOccurs(Envelope(got.pkt.payload).type_url))
          => /\ queue_com' = queue_com
             /\ log'.kind = "filtered"
             /\ pc' = "wait"
             /\ it' = None]_vars

\* C3: a turn has published its record
C3_Witness ==
    /\ log.kind = "published"
    /\ queue_com # <<>>
    /\ queue_com[Len(queue_com)].proto = Foo
    /\ pc = "wait"

\* C4: with the allowlist [""] no record is ever published: no turn gets
\* past the allowlist test, whatever the type identifier.
C4_EmptyAllowlistForwardsNothing ==
    protos_filter = <<EmptyStr>>
    => /\ queue_com = <<>>
       /\ pc \in {"wait", "cancelled"}
       /\ log.kind \notin {"matched", "published"}

\* C4: with the allowlist [""] a segment with a type identifier was seen
\* (its verbose line was printed) and filtered out
C4_Witness ==
    /\ protos_filter = <<EmptyStr>>
    /\ log.kind = "filtered"
    /\ log.line

FailureStep ==
    \/ (DecParse /\ Turn(got, protos_filter, blacklist, verbose).kind = "error")
    \/ (ImportTry /\ pc' \notin {"decode", "compile"})
    \/ (Compile /\ pc' # "import")
    \/ (DecDecode /\ ~ParseMessage(it.value))

\* C6: every failure of a segment (framing, envelope parse, import or
\* compile, payload decode) is logged, publishes nothing, does not put the
\* segment back, drops the turn's state, and leaves the loop waiting for the
\* next item; the loop is never left because of a failure.
C6_FailuresAreCaught ==
    [][(FailureStep \/ (log'.kind = "error" /\ log' # log))
       => /\ FailureStep
          /\ log'.kind = "error"
          /\ queue_com' = queue_com
          /\ queue_msg' = queue_msg
          /\ got' = None
          /\ it' = None
          /\ pc' = "wait"
          /\ thread' = "getting"]_vars

\* C6: the compiler failed, and the loop waits for the next item
C6_Witness ==
    /\ log.kind = "error"
    /\ log.err = "RuntimeError: Protoc failed"
    /\ pc = "wait"
    /\ thread = "getting"

\* C7: a segment whose payload does not hold the marker is rejected: the
\* envelope parse is not attempted (there is no start offset to parse at),
\* the turn is logged as an error and nothing of it goes on to a publish.
C7_MarkerAbsentRejected ==
    [][(DecParse /\ ~Contains(magic_bytes, got.pkt.payload))
       => /\ ~Turn(got, protos_filter, blacklist, verbose).parsed
          /\ log'.kind = "error"
          /\ pc' = "wait"
          /\ queue_com' = queue_com]_vars

\* C8: protoc is run at most once per name, and a request for a name that
\* is loaded already is answered without a compile.
C8_CompileOncePerName ==
    [][/\ Compile => compiles[it.proto_filter] = 0
       /\ (ImportTry /\ it.proto_filter \in modules)
          => (pc' = "decode" /\ compiles' = compiles)]_vars

\* C9: every call of import_proto ends, by returning the module or by
\* raising.
C9_ImportTerminates == (pc = "import") ~> (pc \notin {"import", "compile"})

\* C10: once the decoder has stopped it stays stopped, and nothing is taken
\* out of the input queue any more.
C10_NoItemTakenAfterStop ==
    [][pc = "cancelled"
       => /\ pc' = "cancelled"
          /\ Len(queue_msg') >= Len(queue_msg)]_vars

\* C11: a turn that has its record ready while queue_com is at capacity
\* drops the record and goes back to the get, without waiting for the
\* consumer.
C11_FullDownstreamDropsRecord ==
    [][(DecDecode /\ ParseMessage(it.value) /\ Len(queue_com) = ComMax)
       => /\ queue_com' = queue_com
          /\ pc' = "wait"
          /\ thread' = "getting"]_vars

\* the 7-bit groups of the limbs of w, least significant first
GroupsOf(w) ==
    [i \in 1..(4 * Len(w)) |->
        (w[(i - 1) \div 4 + 1] \div Pow2(GroupBits * ((i - 1) % 4))) % 128]

\* g without its leading zero groups, one group at least
RECURSIVE StripGroups(_)
StripGroups(g) ==
    IF Len(g) > 1 /\ g[Len(g)] = 0 THEN StripGroups(SubSeq(g, 1, Len(g) - 1)) ELSE g

\* the continuation bit set on every group but the last
WithContinuation(g) == [i \in 1..Len(g) |-> IF i < Len(g) THEN g[i] + 128 ELSE g[i]]

\* the base-128 little-endian varint of the int w
EncodeVarint(w) == WithContinuation(StripGroups(GroupsOf(w) \o <<0>>))

\* the values whose encodings are parsed: 0, 1, 127, 128, 16384, 2^35
VarintValues == { <<>>, <<1>>, <<127>>, <<128>>, <<16384>>, <<0, Pow2(35 - LimbBits)>> }

\* the number of bytes of the encoding of each value, as the claim lists them
ExpectedBytes(v) ==
    CASE v = <<>>      -> 1
      [] v = <<1>>     -> 1
      [] v = <<127>>   -> 1
      [] v = <<128>>   -> 2
      [] v = <<16384>> -> 3
      [] OTHER         -> 6

\* C12: parse_varints_from_hex called on the varint encoding of 0, 1, 127,
\* 128, 16384 or 2^35, alone or followed by more bytes, returns that value
\* and the length of the encoding, which is 1, 1, 1, 2, 3 and 6 bytes.
C12_VarintRoundTrip ==
    \A v \in VarintValues, rest \in Suffixes :
        (varint_out # None /\ varint_in = EncodeVarint(v) \o rest)
        => /\ varint_out.value = v
           /\ varint_out.bytes_consumed = ExpectedBytes(v)
           /\ Len(EncodeVarint(v)) = ExpectedBytes(v)
           /\ varint_out.varint_bytes = EncodeVarint(v)

\* C12: the six bytes of 2^35, followed by two more bytes, were parsed
C12_Witness ==
    /\ varint_out # None
    /\ varint_in = <<128, 128, 128, 128, 128, 1, 128, 255>>
    /\ varint_out.value = <<0, 128>>
    /\ varint_out.bytes_consumed = 6

\* C13: a call on bytes with more than ten continuation bytes does not
\* return a value.
C13_OverlongRejected == varint_in \in Overlong => varint_out = None

\* C14: the record a turn publishes has the size its segment's payload
\* declares (the varint's value plus the bytes of the varint) and packet
\* count 1; the segment of a turn is the item the get returned.
C14_SizeAndPacketCount ==
    [][/\ (Len(queue_com') > Len(queue_com))
          => /\ queue_com'[Len(queue_com')].size = DeclaredLength(it.msg.pkt.payload)
             /\ queue_com'[Len(queue_com')].nb_packet = 1
       /\ (DecParse /\ it' # None) => it'.msg = got
       /\ (it # None /\ it' # None) => it'.msg = it.msg]_vars

\* C14: the record of the 13-byte Foo segment was published with size 12 + 1
C14_Witness ==
    /\ queue_com # <<>>
    /\ queue_com[1].size = 13
    /\ queue_com[1].nb_packet = 1
    /\ log.kind = "published"

RECURSIVE ShortName(_)
ShortName(type_url) ==
    IF type_url = <<>> \/ type_url[Len(type_url)] = 47 THEN <<>>
    ELSE Append(ShortName(SubSeq(type_url, 1, Len(type_url) - 1)), type_url[Len(type_url)])

\* C16: the name the resolver was asked for and the type name of every
\* published record are the short name of the envelope's type identifier.
C16_ResolvesShortName ==
    [][(Len(queue_com') > Len(queue_com))
       => /\ it.proto_filter = ShortName(it.type_url)
          /\ queue_com'[Len(queue_com')].proto = ShortName(it.type_url)]_vars

\* C17: when the marker occurs in the payload of a segment that passes the
\* framing check, the envelope parse starts at an index from 0 to the
\* marker's, and the bytes parsed hold the marker.
C17_EnvelopeStartValid ==
    [][(DecParse /\ Contains(magic_bytes, got.pkt.payload)
        /\ Turn(got, protos_filter, blacklist, verbose).parsed)
       => /\ EnvelopeStart(got.pkt.payload) >= 0
          /\ EnvelopeStart(got.pkt.payload) <= IndexOf(magic_bytes, got.pkt.payload)
          /\ Contains(magic_bytes,
                      SliceFrom(got.pkt.payload, EnvelopeStart(got.pkt.payload)))]_vars

\* C18: when the timed get of the running loop times out on the empty
\* queue, nothing is published, no error is logged, the queues and the
\* decoder's state stay as they were, and the loop gets again.
C18_TimeoutChangesNothing ==
    [][(ThreadTimeout /\ pc # "cancelled")
       => /\ queue_msg' = queue_msg
          /\ queue_sm' = queue_sm
          /\ queue_com' = queue_com
          /\ log'.kind # "error"
          /\ pc' = "wait"
          /\ thread' = "getting"
          /\ got' = None
          /\ it' = None
          /\ undone' = undone]_vars

\* C18: the loop has polled the empty queue, timed out and polls again
C18_Witness ==
    /\ log.kind = "timeout"
    /\ pc = "wait"
    /\ thread = "getting"
    /\ queue_msg = <<>>

\* C19: whenever the loop waits in the get, the unfinished-task count of
\* the input queue is the number of items in the queue.
C19_TaskDoneMatchesGet ==
    (pc = "wait" /\ thread = "getting") => unfinished_tasks = Len(queue_msg)

\* the message the handler makes of a packet for the state machine
FlaggedMessage(pkt) ==
    Message(pkt.src, pkt.dst, pkt,
            IF filter_payload_len > 0 /\ Len(pkt.payload) = filter_payload_len
               /\ ~is_client(pkt.src)
            THEN "ACK" ELSE "OTHER")

\* C20: a call of packet_handler puts at most one message into at most one
\* queue: none for a packet that is not TCP over IP or not of a listed
\* server; with filter_payload_len = -1 the message with flag OTHER into
\* the decoder queue only; otherwise into the state-machine queue only,
\* with flag ACK exactly when filter_payload_len > 0, the payload has that
\* length and the source is no client address, else with flag OTHER.
C20_OneMessageOneQueue ==
    [][\A pkt \in Packets : packet_handler(pkt)
         => IF ~Targeted(pkt)
            THEN queue_msg' = queue_msg /\ queue_sm' = queue_sm
            ELSE IF filter_payload_len = -1
            THEN /\ queue_sm' = queue_sm
                 /\ queue_msg' = IF Len(queue_msg) < QueueMax
                                 THEN Append(queue_msg,
                                             Message(pkt.src, pkt.dst, pkt, "OTHER"))
                                 ELSE queue_msg
            ELSE /\ queue_msg' = queue_msg
                 /\ queue_sm' = IF Len(queue_sm) < QueueMax
                                THEN Append(queue_sm, FlaggedMessage(pkt))
                                ELSE queue_sm]_vars

\* C20: the state-machine queue holds a four-byte packet of the server
\* flagged ACK and a four-byte packet of the client flagged OTHER
C20_Witness ==
    /\ filter_payload_len = 4
    /\ Len(queue_sm) = 2
    /\ queue_sm[1].flag = "ACK"
    /\ queue_sm[1].src_ip = ServerIP
    /\ queue_sm[2].flag = "OTHER"
    /\ queue_sm[2].src_ip = ClientIP
    /\ Len(queue_sm[2].pkt.payload) = 4

====
